---- MODULE Spec2Model ----
(***************************************************************************)
(* BTC options chain viewer (src/app.py): the data pipeline of the         *)
(* dashboard.  fetch_options_data requests the product catalog and the     *)
(* tickers, keeps the BTC option contracts, merges each contract's ticker  *)
(* and selects the contracts of the nearest expiry;                        *)
(* create_options_chain_table groups them by strike into one row per       *)
(* strike; main wires both behind a 300 second memoisation of the fetch.   *)
(*                                                                         *)
(* Python values are tagged records [t, v]:                                *)
(*   t = "absent"  the key is not in the dict                              *)
(*   t = "none"    None (a JSON null)                                      *)
(*   t = "int"     the number v                                            *)
(*   t = "str"     for strike_price: the decimal numeral of v ("95000");   *)
(*                 for settlement_time: the ISO-8601 string of instant v   *)
(*                 in the exchange's one format ("2025-08-30T12:00:00Z"),  *)
(*                 whose string order is the order of the instants         *)
(***************************************************************************)
EXTENDS Integers, Sequences, FiniteSets, TLC

VARIABLES
    now,                \* wall clock, in seconds
    secrets,            \* st.secrets["delta_exchange"]: "missing" or a credential set
    cache,              \* st.cache_data store of fetch_options_data, by arguments
    products_response,  \* the last answer of GET /v2/products
    tickers_response,   \* the last answer of GET /v2/tickers
    fetched,            \* what fetch_options_data returned (or raised) in the last run
    chain_df,           \* what create_options_chain_table returned (or raised)
    page,               \* what the last run of the script left on the page
    run                 \* the run in progress: its position and its locals

vars == <<now, secrets, cache, products_response, tickers_response,
          fetched, chain_df, page, run>>

----------------------------------------------------------------------------
(* Bounds of the model *)

MaxProducts == 3        \* longest product catalog of the expiry selection
MaxExpiry == 3          \* settlement instants are 1..MaxExpiry
MaxOptions == 2         \* longest product catalog of the chain assembly
MaxTickers == 1         \* longest ticker list of the chain assembly
MaxCatalog == 1         \* longest product catalog the dashboard draws
MaxClock == 2           \* the dashboard clock runs to MaxClock * TickSeconds

(* Program constants *)

CacheTtl == 300                 \* @st.cache_data(ttl=300)
DefaultSettlementKey == 9999    \* sort key '9999-12-31T23:59:59Z' of a missing settlement_time
TickSeconds == 150              \* the clock advances in steps of TickSeconds

----------------------------------------------------------------------------
(* Python values *)

Absent == [t |-> "absent", v |-> 0]
PyNone == [t |-> "none", v |-> 0]
PyInt(n) == [t |-> "int", v |-> n]
PyStr(n) == [t |-> "str", v |-> n]

\* d.get(key, default): the value under the key, the default when the key is missing
Get(value, default) == IF value = Absent THEN default ELSE value

\* d.get(key): None when the key is missing
GetOrNone(value) == Get(value, PyNone)

\* str(n), as its sequence of decimal digits
RECURSIVE Digits(_)
Digits(n) == IF n < 10 THEN <<n>> ELSE Append(Digits(n \div 10), n % 10)

\* a < b for two Python strings given as character (digit) sequences
RECURSIVE SeqLess(_, _)
SeqLess(a, b) ==
    IF b = <<>> THEN FALSE
    ELSE IF a = <<>> THEN TRUE
    ELSE IF Head(a) # Head(b) THEN Head(a) < Head(b)
    ELSE SeqLess(Tail(a), Tail(b))

----------------------------------------------------------------------------
(* DeltaExchangeAPI._make_request: the parsed JSON body, or None when the  *)
(* request failed.  A response is [kind, result]:                          *)
(*   kind = "none"      the request failed and None was returned           *)
(*   kind = "noresult"  a JSON object without a 'result' member            *)
(*   kind = "ok"        a JSON object whose 'result' is the list result    *)

RequestFailed == [kind |-> "none", result |-> <<>>]
NoResult == [kind |-> "noresult", result |-> <<>>]
Result(list) == [kind |-> "ok", result |-> list]

\* ticker_data[ticker.get('symbol')] = ticker, a later ticker replacing an earlier one
TickerData(response) ==
    IF response.kind # "ok" THEN <<>>
    ELSE LET list == response.result
             Last(sym) == CHOOSE i \in 1..Len(list) :
                              /\ list[i].symbol = sym
                              /\ \A j \in (i+1)..Len(list) : list[j].symbol # sym
         IN [sym \in {list[i].symbol : i \in 1..Len(list)} |-> list[Last(sym)]]

\* product.update(ticker_data[symbol]) when the symbol has a ticker: the ticker's
\* members overwrite the product's, a member the ticker lacks is left alone
MergeTicker(product, ticker_data) ==
    IF product.symbol \in DOMAIN ticker_data
    THEN [product EXCEPT !.mark_price =
              Get(ticker_data[product.symbol].mark_price, @)]
    ELSE product

\* product.get('underlying_asset', {}).get('symbol', '') of a product whose
\* underlying_asset is not null: "absent" is the missing key
UnderlyingSymbol(product) ==
    IF product.underlying_asset = "absent" THEN "" ELSE product.underlying_asset

IsBtcOption(product) ==
    /\ product.contract_type \in {"call_options", "put_options"}
    /\ UnderlyingSymbol(product) = "BTC"

\* the key of sorted(opts, key=...): the settlement_time, a far-future string
\* when the key is missing
SettlementKey(option) == Get(option.settlement_time, PyStr(DefaultSettlementKey))

\* sorted() is stable: an option goes before the first one with a greater key
RECURSIVE InsertBySettlement(_, _)
InsertBySettlement(sorted, option) ==
    IF sorted = <<>> THEN <<option>>
    ELSE IF SettlementKey(option).v < SettlementKey(Head(sorted)).v
         THEN <<option>> \o sorted
         ELSE <<Head(sorted)>> \o InsertBySettlement(Tail(sorted), option)

RECURSIVE SortedBySettlement(_)
SortedBySettlement(opts) ==
    IF opts = <<>> THEN <<>>
    ELSE InsertBySettlement(SortedBySettlement(SubSeq(opts, 1, Len(opts) - 1)),
                            opts[Len(opts)])

\* comparing None with a string (or with None) raises TypeError; a list of one
\* element is sorted without a comparison
SettlementSortRaises(opts) ==
    /\ Len(opts) >= 2
    /\ \E i \in 1..Len(opts) : SettlementKey(opts[i]) = PyNone

\* NearestExpiry keeping the first option of the sorted list alone, as
\* min(opts, key=...) would
NearestExpiryFirstOnly(opts) == SubSeq(SortedBySettlement(opts), 1, 1)

\* the options of the nearest expiry: those whose settlement_time equals that
\* of the first option in sorted order
NearestExpiry(opts) ==
    LET sorted_opts == SortedBySettlement(opts)
        nearest_expiry == GetOrNone(sorted_opts[1].settlement_time)
    IN SelectSeq(sorted_opts,
                 LAMBDA opt : GetOrNone(opt.settlement_time) = nearest_expiry)

NoneNoneNone ==
    [status |-> "none", all_options |-> <<>>, underlying_groups |-> <<>>,
     nearest_expiry_options |-> <<>>]

Raised(exception) ==
    [status |-> exception, all_options |-> <<>>, underlying_groups |-> <<>>,
     nearest_expiry_options |-> <<>>]

\* fetch_options_data without its cache.  The result is
\* [status, all_options, underlying_groups, nearest_expiry_options]: status
\* "ok" with the three values, "none" for (None, None, None), or the
\* exception raised.  Only BTC options pass the filter, so both dicts have the
\* one key 'BTC' and are given by its list.
FetchOptionsData(products_resp, tickers_resp) ==
    IF products_resp.kind # "ok" THEN NoneNoneNone
    ELSE
    LET products == products_resp.result
        ticker_data == TickerData(tickers_resp)
    IN  IF \E i \in 1..Len(products) : products[i].underlying_asset = "null"
        THEN Raised("AttributeError")
        ELSE
        LET btc == SelectSeq(products, IsBtcOption)
            options == [i \in 1..Len(btc) |-> MergeTicker(btc[i], ticker_data)]
        IN  IF options = <<>> THEN NoneNoneNone
            ELSE IF SettlementSortRaises(options) THEN Raised("TypeError")
            ELSE [status |-> "ok",
                  all_options |-> options,
                  underlying_groups |-> options,
                  nearest_expiry_options |-> NearestExpiry(options)]

----------------------------------------------------------------------------
(* create_options_chain_table *)

\* call.get('strike_price', 0)
StrikeOf(option) == Get(option.strike_price, PyInt(0))

\* a < b for two dict keys of one type: numbers by value, strings by character
StrikeLess(a, b) ==
    IF a.t = "str" THEN SeqLess(Digits(a.v), Digits(b.v)) ELSE a.v < b.v

\* sorted(strikes.keys()): the keys in ascending order
RECURSIVE SortedStrikes(_)
SortedStrikes(keys) ==
    IF keys = {} THEN <<>>
    ELSE LET least == CHOOSE k \in keys : \A other \in keys \ {k} : StrikeLess(k, other)
         IN <<least>> \o SortedStrikes(keys \ {least})

\* comparing a number with a string raises TypeError
StrikeSortRaises(keys) == \E a, b \in keys : a.t # b.t

\* LastAt keeping the first option of the strike, as a guarded assignment
\* (if strikes[strike]['call'] is None) would
FirstAt(list, strike) ==
    LET at == SelectSeq(list, LAMBDA opt : Get(opt.strike_price, PyInt(0)) = strike)
    IN IF at = <<>> THEN <<>> ELSE <<at[1]>>

\* strikes[strike]['call'] = call in list order: the last one of the strike stays
LastAt(list, strike) ==
    LET at == SelectSeq(list, LAMBDA opt : StrikeOf(opt) = strike)
    IN IF at = <<>> THEN <<>> ELSE <<at[Len(at)]>>

\* one row of the table; data is <<>> for None, <<option>> otherwise
Symbol(data) == IF data = <<>> THEN "" ELSE data[1].symbol
Price(data) == IF data = <<>> THEN PyInt(0) ELSE Get(data[1].mark_price, PyInt(0))

Row(strike, call_data, put_data) ==
    [Strike |-> strike,
     Call_Symbol |-> Symbol(call_data), Call_Price |-> Price(call_data),
     Put_Symbol |-> Symbol(put_data), Put_Price |-> Price(put_data)]

\* create_options_chain_table(options_data, 'BTC') for options_data['BTC'] =
\* options: [status, rows], status "ok" with the rows of the DataFrame or the
\* exception raised
CreateOptionsChainTable(options) ==
    LET calls == SelectSeq(options, LAMBDA opt : opt.contract_type = "call_options")
        puts == SelectSeq(options, LAMBDA opt : opt.contract_type = "put_options")
        keys == {StrikeOf(calls[i]) : i \in 1..Len(calls)}
                    \cup {StrikeOf(puts[i]) : i \in 1..Len(puts)}
    IN  IF StrikeSortRaises(keys) THEN [status |-> "TypeError", rows |-> <<>>]
        ELSE LET order == SortedStrikes(keys)
             IN [status |-> "ok",
                 rows |-> [i \in 1..Len(order) |->
                              Row(order[i], LastAt(calls, order[i]),
                                  LastAt(puts, order[i]))]]

----------------------------------------------------------------------------
(* main: a run of the script, from the secrets to the Refresh button.  A   *)
(* run that misses the cache waits for the two requests of                 *)
(* fetch_options_data; the clock and the exchange move while it waits.     *)

NotFetched == [status |-> "not run", all_options |-> <<>>, underlying_groups |-> <<>>,
               nearest_expiry_options |-> <<>>]
NoTable == [status |-> "not run", rows |-> <<>>]
NoEntry == [stored |-> FALSE, value |-> NotFetched, at |-> 0]

\* no run in progress
Idle == [pc |-> "idle", pressed |-> FALSE, key |-> "", products |-> RequestFailed]

\* CacheHit of a cache without a ttl (@st.cache_data)
CacheHitForever(entry, time) == entry.stored

\* st.cache_data(ttl=300): an entry answers the call while it is younger than
\* the ttl, counted from the time the entry was written
CacheHit(entry, time) == entry.stored /\ time - entry.at < CacheTtl

\* what a run leaves on the page: the view, whether the Refresh Data button was
\* rendered, whether the run reused a cached result, and the age of that
\* result: the time from the return of the call that was cached to the run's
\* lookup (0 for a result of the run's own requests)
PageOf(view, button, reused, age) ==
    [view |-> view, refresh_button |-> button, reused |-> reused, age |-> age]

\* chain_df['Call_Price'] > 0 of a row: a number above 0 (None compares False)
Positive(price) == price.t = "int" /\ price.v > 0

\* the statistics of a non-empty table: f"${...['Strike'].min():.0f}" over the
\* rows with a positive call price (the max over those with a positive put
\* price) raises ValueError when the strikes are strings
RenderRaises(table) ==
    \E i \in 1..Len(table.rows) :
        /\ table.rows[i].Strike.t = "str"
        /\ \E j \in 1..Len(table.rows) :
              Positive(table.rows[j].Call_Price) \/ Positive(table.rows[j].Put_Price)

\* main after fetch_options_data returned result: the view the run ends with,
\* whether it reached the Refresh Data button, and chain_df
AfterFetch(result) ==
    IF result.status = "none"
    THEN [view |-> "no_data_error", button |-> FALSE, table |-> NoTable]
    ELSE LET table == CreateOptionsChainTable(result.nearest_expiry_options)
         IN IF table.status # "ok"
            THEN [view |-> "exception", button |-> FALSE, table |-> table]
            ELSE IF table.rows = <<>>
            THEN [view |-> "warning", button |-> TRUE, table |-> table]
            ELSE IF RenderRaises(table)
            THEN [view |-> "exception", button |-> FALSE, table |-> table]
            ELSE [view |-> "table", button |-> TRUE, table |-> table]

\* the run goes on with result, store being the cache after the call.  When it
\* reaches the button and the button was pressed, st.cache_data.clear() empties
\* the cache of every key and st.rerun() schedules another run.
EndRun(result, pressed, reused, age, store) ==
    LET out == AfterFetch(result)
    IN  /\ fetched' = result
        /\ chain_df' = out.table
        /\ page' = PageOf(out.view, out.button, reused, age)
        /\ IF out.button /\ pressed
           THEN /\ cache' = [k \in DOMAIN cache |-> NoEntry]
                /\ run' = [Idle EXCEPT !.pc = "rerun"]
           ELSE /\ cache' = store
                /\ run' = Idle

\* fetch_options_data returns result, which is cached under the run's
\* credentials at the time of the return, or raises: nothing is cached and
\* nothing after the call is rendered
Returned(result) ==
    IF result.status \in {"ok", "none"}
    THEN EndRun(result, run.pressed, FALSE, 0,
                [cache EXCEPT ![run.key] =
                    [stored |-> TRUE, value |-> result, at |-> now]])
    ELSE /\ fetched' = result
         /\ chain_df' = NoTable
         /\ page' = PageOf("exception", FALSE, FALSE, 0)
         /\ run' = Idle
         /\ UNCHANGED cache

\* main from its first line to the call of fetch_options_data: st.stop() when
\* the secrets are missing, the rest of the run on a cache hit, the products
\* request on a miss
StartRun(pressed) ==
    IF secrets = "missing"
    THEN /\ page' = PageOf("credentials_error", FALSE, FALSE, 0)
         /\ fetched' = NotFetched
         /\ chain_df' = NoTable
         /\ run' = Idle
         /\ UNCHANGED cache
    ELSE IF CacheHit(cache[secrets], now)
    THEN EndRun(cache[secrets].value, pressed, TRUE, now - cache[secrets].at, cache)
    ELSE /\ run' = [pc |-> "products", pressed |-> pressed, key |-> secrets,
                    products |-> RequestFailed]
         /\ UNCHANGED <<cache, fetched, chain_df, page>>

\* any interaction other than the button, or a page load, runs the script
Load ==
    /\ run.pc = "idle"
    /\ StartRun(FALSE)
    /\ UNCHANGED <<now, secrets, products_response, tickers_response>>

\* the Refresh Data button exists only on a page whose run reached it; the
\* click runs the script with the button pressed
ClickRefresh ==
    /\ run.pc = "idle"
    /\ page.refresh_button
    /\ StartRun(TRUE)
    /\ UNCHANGED <<now, secrets, products_response, tickers_response>>

\* the run st.rerun() scheduled
Rerun ==
    /\ run.pc = "rerun"
    /\ StartRun(FALSE)
    /\ UNCHANGED <<now, secrets, products_response, tickers_response>>

\* GET /v2/products answers: without a result fetch_options_data returns
\* (None, None, None), with one it goes on to the tickers request
RequestProducts ==
    /\ run.pc = "products"
    /\ IF products_response.kind # "ok"
       THEN Returned(FetchOptionsData(products_response, tickers_response))
       ELSE /\ run' = [run EXCEPT !.pc = "tickers", !.products = products_response]
            /\ UNCHANGED <<cache, fetched, chain_df, page>>
    /\ UNCHANGED <<now, secrets, products_response, tickers_response>>

\* GET /v2/tickers answers and fetch_options_data runs to its end
RequestTickers ==
    /\ run.pc = "tickers"
    /\ Returned(FetchOptionsData(run.products, tickers_response))
    /\ UNCHANGED <<now, secrets, products_response, tickers_response>>

\* the steps of the script
Run == Load \/ RequestProducts \/ RequestTickers

----------------------------------------------------------------------------
(* The exchange's answers the specifications draw from *)

SymbolNames == <<"S1", "S2", "S3", "S4", "S5">>

\* a catalog: the product record at place i has the members of shapes[i] and
\* the symbol of the place (a symbol names one product), and no mark_price
CatalogOf(shapes) ==
    [i \in DOMAIN shapes |->
        [contract_type |-> shapes[i].contract_type,
         underlying_asset |-> shapes[i].underlying_asset,
         symbol |-> SymbolNames[i],
         strike_price |-> shapes[i].strike_price,
         settlement_time |-> shapes[i].settlement_time,
         mark_price |-> Absent]]

Instants == {PyStr(t) : t \in 1..MaxExpiry}

\* expiry selection: options and futures on two underlyings, every settlement_time
FetchShapes ==
    [contract_type : {"call_options", "futures"},
     underlying_asset : {"BTC", "ETH"},
     strike_price : {PyInt(10)},
     settlement_time : Instants \cup {Absent, PyNone}]

\* chain assembly: BTC calls and puts of two expiries, strikes as numbers, as
\* numeric strings ("9" sorts after "10") or missing
ChainShapes ==
    [contract_type : {"call_options", "put_options"},
     underlying_asset : {"BTC"},
     strike_price : {Absent, PyInt(10), PyStr(9), PyStr(10)},
     settlement_time : {PyStr(1), PyStr(2)}]

ChainTickers ==
    [symbol : {SymbolNames[i] : i \in 1..MaxOptions},
     mark_price : {Absent, PyNone, PyInt(5)}]

\* the dashboard: short catalogs of BTC calls and of calls whose
\* underlying_asset is null
DashShapes ==
    [contract_type : {"call_options"},
     underlying_asset : {"BTC", "null"},
     strike_price : {PyInt(10)},
     settlement_time : {PyStr(1)}]

\* a products (tickers) response is drawn: the request fails, the body has no
\* 'result', or the result is a list of at most max records
DrawnProducts(response, max, shapes, failures) ==
    \/ response \in failures
    \/ \E n \in 0..max : \E list \in [1..n -> shapes] :
          response = Result(CatalogOf(list))

DrawnTickers(response, max, tickers) ==
    \/ response = RequestFailed
    \/ \E n \in 0..max : \E list \in [1..n -> tickers] : response = Result(list)

CredentialSets == {"A", "B"}

BlankPage == PageOf("blank", FALSE, FALSE, 0)

----------------------------------------------------------------------------
(* Specifications *)

InitProgram ==
    /\ secrets = "A"
    /\ cache = [k \in CredentialSets |-> NoEntry]
    /\ fetched = NotFetched
    /\ chain_df = NoTable
    /\ page = BlankPage
    /\ run = Idle

\* fetch_options_data on every catalog of FetchShapes, queried before the
\* first settlement instant or at the last one
InitFetch ==
    /\ InitProgram
    /\ now \in {0, MaxExpiry}
    /\ DrawnProducts(products_response, MaxProducts, FetchShapes, {})
    /\ tickers_response = RequestFailed

SpecFetch == InitFetch /\ [][Run]_vars

\* fetch_options_data and create_options_chain_table on every catalog of
\* ChainShapes with every list of ChainTickers
InitChain ==
    /\ InitProgram
    /\ now = 0
    /\ DrawnProducts(products_response, MaxOptions, ChainShapes, {})
    /\ DrawnTickers(tickers_response, MaxTickers, ChainTickers)

SpecChain == InitChain /\ [][Run]_vars

\* the dashboard over time
Init ==
    /\ InitProgram
    /\ now = 0
    /\ DrawnProducts(products_response, MaxCatalog, DashShapes, {RequestFailed, NoResult})
    /\ tickers_response = RequestFailed

Tick ==
    /\ now < MaxClock * TickSeconds
    /\ now' = now + TickSeconds
    /\ UNCHANGED <<secrets, cache, products_response, tickers_response,
                   fetched, chain_df, page, run>>

\* the exchange's catalog changes
MarketMoves ==
    /\ DrawnProducts(products_response', MaxCatalog, DashShapes, {RequestFailed, NoResult})
    /\ UNCHANGED <<now, secrets, cache, tickers_response, fetched, chain_df, page, run>>

\* the secrets file is edited
EditSecrets ==
    /\ secrets' \in CredentialSets \cup {"missing"}
    /\ UNCHANGED <<now, cache, products_response, tickers_response,
                   fetched, chain_df, page, run>>

Next ==
    \/ Load \/ ClickRefresh \/ Rerun \/ RequestProducts \/ RequestTickers
    \/ Tick \/ MarketMoves \/ EditSecrets

Spec == Init /\ [][Next]_vars

----------------------------------------------------------------------------
(* The claims *)

catalog == products_response.result
nearest == fetched.nearest_expiry_options
rows == chain_df.rows
TableBuilt == fetched.status = "ok" /\ chain_df.status = "ok"

\* the places of the catalog that hold a BTC option contract
BtcOptionPlaces ==
    {i \in 1..Len(catalog) :
        /\ catalog[i].contract_type \in {"call_options", "put_options"}
        /\ catalog[i].underlying_asset = "BTC"}

NearestSymbols == {nearest[i].symbol : i \in 1..Len(nearest)}

\* C1: the Strike values of the returned table are exactly the strike prices
\* the call and put instruments carry: none dropped, none invented.
C1_StrikeUnion ==
    TableBuilt =>
        {rows[i].Strike : i \in 1..Len(rows)}
            = {nearest[i].strike_price : i \in 1..Len(nearest)} \ {Absent}

\* C2: the rows are strictly ascending by the numeric value of the strike
\* (also when strike_price is a numeric string), so no strike has two rows.
C2_StrictlyAscending ==
    TableBuilt =>
        \A i, j \in 1..Len(rows) : i < j => rows[i].Strike.v < rows[j].Strike.v

\* a is settled before b; an option without a settlement time string is not
\* before any other
SettlesBefore(a, b) ==
    /\ a.settlement_time.t = "str"
    /\ b.settlement_time.t = "str" => a.settlement_time.v < b.settlement_time.v

\* C3: nearest-expiry selection returns exactly the BTC options whose
\* settlement time is the minimum of the BTC options' settlement times: every
\* one tied at the minimum, each once, and none that settles later.
C3_NearestExpiryExact ==
    fetched.status = "ok" =>
        /\ NearestSymbols =
              {catalog[i].symbol : i \in
                  {i \in BtcOptionPlaces :
                      \A j \in BtcOptionPlaces : ~SettlesBefore(catalog[j], catalog[i])}}
        /\ Cardinality(NearestSymbols) = Len(nearest)

\* C3 witness: settlement times [T2, T1, T1] among three BTC options, the
\* later one first in the catalog; the two at T1 were selected.
C3_Witness ==
    /\ fetched.status = "ok"
    /\ Len(catalog) >= 3
    /\ {1, 2, 3} \subseteq BtcOptionPlaces
    /\ catalog[1].settlement_time = PyStr(2)
    /\ catalog[2].settlement_time = PyStr(1)
    /\ catalog[3].settlement_time = PyStr(1)
    /\ Len(nearest) = 2

\* no option of the given type at the strike has a numeric mark price
NoPriceData(type, strike) ==
    \A i \in 1..Len(nearest) :
        (nearest[i].contract_type = type /\ Get(nearest[i].strike_price, PyInt(0)) = strike)
            => nearest[i].mark_price.t # "int"

\* C4: where there is no price data for the call (the put) of a strike, the
\* row's Call_Price (Put_Price) is undefined, never 0 or another number.
C4_MissingPriceUndefined ==
    TableBuilt =>
        \A i \in 1..Len(rows) :
            /\ NoPriceData("call_options", rows[i].Strike) => rows[i].Call_Price.t # "int"
            /\ NoPriceData("put_options", rows[i].Strike) => rows[i].Put_Price.t # "int"

\* C5: no instrument of the nearest expiry has a settlement time at or before
\* the time of the query.
C5_NearestExpiryInFuture ==
    fetched.status = "ok" =>
        \A i \in 1..Len(nearest) :
            nearest[i].settlement_time.t = "str" => nearest[i].settlement_time.v > now

\* the places of the catalog that hold a nearest-expiry option of the type at
\* the strike
PlacesAt(type, strike) ==
    {i \in 1..Len(catalog) :
        /\ catalog[i].symbol \in NearestSymbols
        /\ catalog[i].contract_type = type
        /\ Get(catalog[i].strike_price, PyInt(0)) = strike}

Least(places) == CHOOSE i \in places : \A j \in places : i <= j
Greatest(places) == CHOOSE i \in places : \A j \in places : i >= j

\* the price the table shows for the option with the symbol
ShownPrice(symbol) ==
    LET i == CHOOSE i \in 1..Len(nearest) : nearest[i].symbol = symbol
    IN Get(nearest[i].mark_price, PyInt(0))

\* C6 as stated: of the instruments of one type that share a strike, the row
\* shows the symbol and price of the one first in catalog order.
C6_FirstEncounteredWins ==
    TableBuilt =>
        \A i \in 1..Len(rows) :
            LET calls == PlacesAt("call_options", rows[i].Strike)
                puts == PlacesAt("put_options", rows[i].Strike)
            IN /\ calls # {} =>
                    /\ rows[i].Call_Symbol = catalog[Least(calls)].symbol
                    /\ rows[i].Call_Price = ShownPrice(catalog[Least(calls)].symbol)
               /\ puts # {} =>
                    /\ rows[i].Put_Symbol = catalog[Least(puts)].symbol
                    /\ rows[i].Put_Price = ShownPrice(catalog[Least(puts)].symbol)

\* C6 amended: of the instruments of one type that share a strike, the row
\* shows the symbol and price of the one last in catalog order.
C6_LastEncounteredWins ==
    TableBuilt =>
        \A i \in 1..Len(rows) :
            LET calls == PlacesAt("call_options", rows[i].Strike)
                puts == PlacesAt("put_options", rows[i].Strike)
            IN /\ calls # {} =>
                    /\ rows[i].Call_Symbol = catalog[Greatest(calls)].symbol
                    /\ rows[i].Call_Price = ShownPrice(catalog[Greatest(calls)].symbol)
               /\ puts # {} =>
                    /\ rows[i].Put_Symbol = catalog[Greatest(puts)].symbol
                    /\ rows[i].Put_Price = ShownPrice(catalog[Greatest(puts)].symbol)

\* C6 witness: a table was built from a nearest expiry in which two calls of
\* different price share a strike.
C6_Witness ==
    /\ TableBuilt
    /\ \E i \in 1..Len(rows) :
          LET calls == PlacesAt("call_options", rows[i].Strike)
          IN /\ Cardinality(calls) >= 2
             /\ ShownPrice(catalog[Least(calls)].symbol)
                    # ShownPrice(catalog[Greatest(calls)].symbol)

\* C7: an instrument without a strike_price is left out of the table that is
\* built: no row shows its symbol.
C7_UnresolvableExcluded ==
    TableBuilt =>
        \A i \in 1..Len(nearest) :
            nearest[i].strike_price = Absent =>
                \A r \in 1..Len(rows) :
                    /\ rows[r].Call_Symbol # nearest[i].symbol
                    /\ rows[r].Put_Symbol # nearest[i].symbol

\* C8: a run ends with the table or an explicit empty or error state, never
\* with an unhandled exception; and no table is built when the catalog is
\* unavailable or holds no BTC option.
C8_NoUnhandledException ==
    /\ page.view # "exception"
    /\ fetched.status = "none" => chain_df = NoTable

\* C9 as stated: the chain a run shows is computed from data requested during
\* that run, never from the result of an earlier request.
C9_FreshEveryRun ==
    page.view = "table" => ~page.reused

\* C9 amended: the chain a run shows is computed from data requested during
\* that run, or from a result that fetch_options_data returned less than 300
\* seconds before the run.
C9_FreshWithinTtl ==
    (page.view = "table" /\ page.reused) =>
        /\ page.age >= 0
        /\ page.age < CacheTtl

\* C9 witness: a run showed a chain computed from a result returned to an
\* earlier run, at an earlier time.
C9_Witness ==
    /\ page.view = "table"
    /\ page.reused
    /\ page.age > 0

\* C10: the page of a failed catalog fetch offers the Refresh Data button, so
\* that the cached failure can be replaced before the cache expires.
C10_RefreshReachableFromError ==
    (page.view = "no_data_error" /\ secrets # "missing"
        /\ CacheHit(cache[secrets], now))
        => page.refresh_button

====
